---- MODULE Spec2Model ----
(***************************************************************************)
(* mospeada: generation configuration, the TextGeneration step loop and    *)
(* the TextOutputStream streaming detokenizer.                             *)
(*                                                                         *)
(*   Spec        the TextGeneration session  (src/src/generation.rs 94-174)*)
(*   SpecStream  the TextOutputStream        (src/src/generation.rs 252-330*)
(*               and, line for line the same, src/src/tokenizers.rs 6-74)  *)
(*   SpecConfig  GenerationConfig and its sampling() resolver              *)
(*               (src/src/generation.rs 17-92)                             *)
(***************************************************************************)
EXTENDS Integers, Sequences, FiniteSets, TLC

VARIABLES
    \* ---- GenerationConfig (generation.rs 17-24)
    config,
    \* ---- result of GenerationConfig::sampling / LogitsProcessor strategy
    sampling,
    \* ---- result of GenerationConfig::get_eos_token_id
    eos_ids,
    \* ---- TextGeneration (generation.rs 94-105)
    pc,                 \* "config": not constructed, "session", "panic"
    repetition_penalty,
    repeat_last_n,
    eos_token_id,
    max_new_tokens,
    generated_tokens,
    tokens,
    cache,              \* the model's recurrent cache: tokens fed since reset()
    \* ---- what the caller observes of the session
    op,                 \* the operation that produced this state
    ret,                \* its result
    outs,               \* results of the step calls since the last apply
    drawn,              \* tokens the sampler returned since the last apply
    applied,            \* an apply has been called on the session
    fwd,                \* the forward call made by the last step, if any
    promptLen,          \* length of the ids given to the last apply
    applyArgs,          \* the arguments (ids, max_new_tokens) of the last apply
    \* ---- TextOutputStream (generation.rs 252-257)
    s_tokens,
    prev_index,
    current_index,
    s_ret,              \* result of the last next_token / decode_rest
    s_op,
    emitted,            \* concatenation of the fragments returned so far
    s_pushed,           \* the tokens given to next_token since new() or clear()
    cleared,            \* clear() has been called on this detokenizer
    \* ---- read_safetensors_index_file / load_safetensors (lib.rs 14-41)
    weight_map,         \* the index file's "weight_map": its values, in map order
    safetensors_files,  \* the HashSet read_safetensors_index_file returns
    resolved,           \* the Vec<PathBuf> load_safetensors returns
    i_op,
    \* ---- the locals of Pipeline::run (pipeline.rs 105-167)
    run_tokens,
    msg_len,
    run_prev_index,
    run_current_index,
    run_generated,
    run_max,            \* the max_new_tokens argument
    printed,            \* the text written by print! so far
    run_pc,             \* "none", "loop", "done" (the loop was left), "finished",
                        \* "error", "panic"
    \* ---- two TextGeneration values, each with its own model and sampler
    sessions,           \* session number -> the fields of generation.rs 94-105
    calls,              \* session number -> the calls made on it so far
    t_op,               \* the session called last, 0 before any call
    \* ---- a Pipeline and a TextGeneration given the same requests
    pipeline,           \* the fields of pipeline.rs 9-24, with its model and sampler
    p_run,              \* the locals of the last Pipeline::run and how it ended
    session,            \* the fields of generation.rs 94-105, as in sessions
    request,            \* the prompt tokens and max_new_tokens being served
    served,             \* the requests both have finished
    pair_pc             \* "none", "idle", "ran", "stepping"

cfgVars == <<config, sampling, eos_ids>>
genVars == <<pc, repetition_penalty, repeat_last_n, eos_token_id, max_new_tokens,
             generated_tokens, tokens, cache, op, ret, outs, drawn, applied, fwd,
             promptLen, applyArgs>>
strVars == <<s_tokens, prev_index, current_index, s_ret, s_op, emitted, s_pushed,
             cleared>>
idxVars == <<weight_map, safetensors_files, resolved, i_op>>
runVars == <<run_tokens, msg_len, run_prev_index, run_current_index, run_generated,
             run_max, printed, run_pc>>
twinVars == <<sessions, calls, t_op>>
pairVars == <<pipeline, p_run, session, request, served, pair_pc>>
extVars == <<idxVars, runVars, twinVars, pairVars>>
vars == <<cfgVars, genVars, strVars, extVars>>

(***************************************************************************)
(* Bounds of the model.                                                    *)
(***************************************************************************)
MaxBudget == 2      \* largest max_new_tokens given to apply
MaxCalls == 3       \* step calls followed after one apply
MaxPush == 4        \* tokens pushed into one detokenizer

Vocab == 0 .. 2
NoToken == 0 - 1

Range(s) == {s[i] : i \in 1 .. Len(s)}

(***************************************************************************)
(* Option<T>: None is the empty sequence, Some(v) the one-element one.     *)
(***************************************************************************)
None == <<>>
Some(v) == <<v>>
IsSome(o) == Len(o) = 1
Unwrap(o) == o[1]
UnwrapOr(o, default) == IF IsSome(o) THEN o[1] ELSE default

(***************************************************************************)
(* f64 temperatures: a value is a NaN or a multiple of 1e-8.  A comparison *)
(* with a NaN operand is false, as in IEEE 754.                            *)
(***************************************************************************)
F64(u) == [nan |-> FALSE, u |-> u]
NaN == [nan |-> TRUE, u |-> 0]
FLt(a, b) == ~a.nan /\ ~b.nan /\ a.u < b.u
FGe(a, b) == ~a.nan /\ ~b.nan /\ a.u >= b.u
Threshold == F64(10)    \* the literal 1e-7 of generation.rs:75

(***************************************************************************)
(* enum Eos (generation.rs 11-14)                                          *)
(***************************************************************************)
Single(id) == [tag |-> "Single", id |-> id, ids |-> <<>>]
Multi(ids) == [tag |-> "Multi", id |-> NoToken, ids |-> ids]

(***************************************************************************)
(* enum Sampling (candle_transformers::generation), as built at            *)
(* generation.rs 78-83.  Unused fields are None.                           *)
(***************************************************************************)
ArgMax == [kind |-> "ArgMax", k |-> None, p |-> None, temperature |-> None]
All(t) == [kind |-> "All", k |-> None, p |-> None, temperature |-> Some(t)]
TopK(k, t) == [kind |-> "TopK", k |-> Some(k), p |-> None, temperature |-> Some(t)]
TopP(p, t) == [kind |-> "TopP", k |-> None, p |-> Some(p), temperature |-> Some(t)]
TopKThenTopP(k, p, t) ==
    [kind |-> "TopKThenTopP", k |-> Some(k), p |-> Some(p), temperature |-> Some(t)]
Unresolved == [kind |-> "Unresolved", k |-> None, p |-> None, temperature |-> None]

\* generation.rs 73-75: self.temperature.and_then(|v| if v < 1e-7 {None} else {Some(v)})
FilterTemperatureNone(temperature) == temperature
FilterTemperatureInclusive(temperature) ==
    IF IsSome(temperature)
    THEN (IF ~FGe(Unwrap(temperature), Threshold) \/ Unwrap(temperature) = Threshold
          THEN None ELSE Some(Unwrap(temperature)))
    ELSE None
FilterTemperature(temperature) ==
    IF IsSome(temperature)
    THEN (IF FLt(Unwrap(temperature), Threshold) THEN None ELSE Some(Unwrap(temperature)))
    ELSE None

\* GenerationConfig::sampling (generation.rs 72-86)
Sampling(c) ==
    LET temperature == FilterTemperature(c.temperature)
    IN  IF ~IsSome(temperature) THEN ArgMax
        ELSE LET t == Unwrap(temperature)
             IN  CASE ~IsSome(c.top_k) /\ ~IsSome(c.top_p) -> All(t)
                   [] IsSome(c.top_k) /\ ~IsSome(c.top_p) -> TopK(Unwrap(c.top_k), t)
                   [] ~IsSome(c.top_k) /\ IsSome(c.top_p) -> TopP(Unwrap(c.top_p), t)
                   [] IsSome(c.top_k) /\ IsSome(c.top_p) ->
                        TopKThenTopP(Unwrap(c.top_k), Unwrap(c.top_p), t)

\* GenerationConfig::get_eos_token_id (generation.rs 56-62)
GetEosTokenIdFirstOnly(c) ==
    IF ~IsSome(c.eos_token_id) THEN None
    ELSE LET e == Unwrap(c.eos_token_id)
         IN  IF e.tag = "Single" THEN Some(<<e.id>>)
             ELSE Some(SubSeq(e.ids, 1, IF Len(e.ids) > 0 THEN 1 ELSE 0))
GetEosTokenIdDefault(c) ==
    IF ~IsSome(c.eos_token_id) THEN Some(<<>>)
    ELSE LET e == Unwrap(c.eos_token_id)
         IN  IF e.tag = "Single" THEN Some(<<e.id>>) ELSE Some(e.ids)
GetEosTokenId(c) ==
    IF ~IsSome(c.eos_token_id) THEN None
    ELSE LET e == Unwrap(c.eos_token_id)
         IN  IF e.tag = "Single" THEN Some(<<e.id>>) ELSE Some(e.ids)

\* GenerationConfig::get_repetition_penalty_or (generation.rs 64-66)
GetRepetitionPenaltyOrTwo(c, default) == UnwrapOr(c.repetition_penalty, 2)
GetRepetitionPenaltyOr(c, default) == UnwrapOr(c.repetition_penalty, default)

\* GenerationConfig::get_max_new_tokens_or (generation.rs 68-70)
GetMaxNewTokensOrOne(c, default) == UnwrapOr(c.max_new_tokens, 1)
GetMaxNewTokensOr(c, default) == UnwrapOr(c.max_new_tokens, default)

(***************************************************************************)
(* The model capability (crate::Module): forward and reset.  Its scores    *)
(* are drawn from Scores for every vocabulary entry; a forward call may    *)
(* fail.  The cache records the tokens fed since the last reset.           *)
(***************************************************************************)
Scores == {0 - 2, 2}
LogitsSet == [Vocab -> Scores]

\* candle_transformers::utils::apply_repeat_penalty, called at generation.rs 156-160:
\* every distinct context token has its score divided (>= 0) or multiplied (< 0).
ApplyRepeatPenalty(logits, penalty, context) ==
    [t \in Vocab |->
        IF t \in Range(context)
        THEN (IF logits[t] >= 0 THEN logits[t] \div penalty ELSE logits[t] * penalty)
        ELSE logits[t]]

\* generation.rs 152-161
PenalisedWholeHistory(logits, penalty, last_n, toks) ==
    IF penalty = 1 THEN logits ELSE ApplyRepeatPenalty(logits, penalty, toks)
Penalised(logits, penalty, last_n, toks) ==
    IF penalty = 1 THEN logits
    ELSE LET start_at == IF Len(toks) >= last_n THEN Len(toks) - last_n ELSE 0
         IN  ApplyRepeatPenalty(logits, penalty, SubSeq(toks, start_at + 1, Len(toks)))

\* LogitsProcessor::sample, called at generation.rs 163.  ArgMax takes the last
\* entry of maximal score (Iterator::max_by).  A seeded draw can return any
\* token the strategy leaves a non-zero weight: every token for All, the k
\* best for TopK; for TopP and TopKThenTopP, whose cut depends on the
\* probabilities, every token is allowed (a superset of the possible draws).
SampleSet(strategy, logits) ==
    LET above(t) == Cardinality({u \in Vocab : logits[u] > logits[t]})
        best == {t \in Vocab : above(t) = 0}
    IN  CASE strategy.kind = "ArgMax" -> {CHOOSE t \in best : \A u \in best : u <= t}
          [] strategy.kind = "TopK" -> {t \in Vocab : above(t) < Unwrap(strategy.k)}
          [] OTHER -> Vocab

(***************************************************************************)
(* Results of a step: Result<u32> with the Error variants of error.rs 6-10.*)
(***************************************************************************)
NoRet == [kind |-> "None", token |-> NoToken, generated |-> 0, max_new_tokens |-> 0]
Ok(t) == [kind |-> "Ok", token |-> t, generated |-> 0, max_new_tokens |-> 0]
ErrEos(t, n) == [kind |-> "Eos", token |-> t, generated |-> n, max_new_tokens |-> 0]
ErrMaxNewTokenExceeded(m) ==
    [kind |-> "MaxNewTokenExceeded", token |-> NoToken, generated |-> 0, max_new_tokens |-> m]
ErrCandle == [kind |-> "Candle", token |-> NoToken, generated |-> 0, max_new_tokens |-> 0]

\* The forward calls of a step (forwards counts them), and what the step then
\* did to the scores: the vocabulary entries whose score the sampler saw changed.
NoFwd == [called |-> FALSE, forwards |-> 0, ctxt |-> <<>>, start_pos |-> 0,
          sampled |-> FALSE, token |-> NoToken, changed |-> {}]
FwdFailed(ctxt, start_pos) ==
    [called |-> TRUE, forwards |-> 1, ctxt |-> ctxt, start_pos |-> start_pos,
     sampled |-> FALSE, token |-> NoToken, changed |-> {}]
FwdSampled(ctxt, start_pos, logits, input, next_token) ==
    [called |-> TRUE, forwards |-> 1, ctxt |-> ctxt, start_pos |-> start_pos,
     sampled |-> TRUE, token |-> next_token,
     changed |-> {t \in Vocab : input[t] # logits[t]}]

\* generation.rs 141: the budget check
BudgetExhaustedLate(generated, max) == generated > max
BudgetExhaustedEarly(generated, max) == generated + 1 >= max
BudgetExhausted(generated, max) == generated >= max

\* generation.rs 166: self.eos_token_id.contains(&next_token)
IsEos(eos, t) == t \in Range(eos)

\* generation.rs 165-173: the counter is incremented before the result is built
StepOutcomeStaleCount(eos, t, generated) ==
    IF IsEos(eos, t) THEN ErrEos(t, generated) ELSE Ok(t)
StepOutcome(eos, t, generated) ==
    IF IsEos(eos, t) THEN ErrEos(t, generated + 1) ELSE Ok(t)

\* the arguments of apply (generation.rs 128), before any apply
NoArgs == [ids |-> <<>>, max_new_tokens |-> 0]

\* usize::saturating_sub
SaturatingSub(a, b) == IF a >= b THEN a - b ELSE 0

\* generation.rs 164: self.tokens.push(next_token)
PushHistoryFront(toks, next_token) == <<next_token>> \o toks
PushHistory(toks, next_token) == Append(toks, next_token)

(***************************************************************************)
(* TextGeneration::next_token (generation.rs 140-174), on the history,     *)
(* counter, budget and cache it finds.  Its three ways out:                *)
(*   Refused  the budget check returns MaxNewTokenExceeded (141-145)       *)
(*   Failed   forward, or a later tensor operation, fails and `?` returns  *)
(*            the error (149-163)                                          *)
(*   Sampled  a token is drawn, pushed and counted (163-173)               *)
(***************************************************************************)
RefusedAfterForward(toks, generated, max, cch, context_size) ==
    LET start_pos == SaturatingSub(Len(toks), context_size)
        ctxt == SubSeq(toks, start_pos + 1, Len(toks))
    IN  /\ ret' = ErrMaxNewTokenExceeded(max)
        /\ tokens' = toks
        /\ generated_tokens' = generated
        /\ cache' = cch \o ctxt
        /\ fwd' = FwdFailed(ctxt, start_pos)
Refused(toks, generated, max, cch, context_size) ==
    /\ ret' = ErrMaxNewTokenExceeded(max)
    /\ tokens' = toks
    /\ generated_tokens' = generated
    /\ cache' = cch
    /\ fwd' = NoFwd

FailedRetries(toks, generated, cch, ctxt, start_pos) ==
    /\ ret' = ErrCandle
    /\ tokens' = toks
    /\ generated_tokens' = generated
    /\ cache' \in {cch, cch \o ctxt, cch \o ctxt \o ctxt}
    /\ fwd' = [FwdFailed(ctxt, start_pos) EXCEPT !.forwards = 2]
Failed(toks, generated, cch, ctxt, start_pos) ==
    /\ ret' = ErrCandle
    /\ tokens' = toks
    /\ generated_tokens' = generated
    /\ cache' \in {cch, cch \o ctxt}
    /\ fwd' = FwdFailed(ctxt, start_pos)

Sampled(toks, generated, cch, ctxt, start_pos, logits, next_token) ==
    /\ tokens' = PushHistory(toks, next_token)
    /\ generated_tokens' = generated + 1
    /\ ret' = StepOutcome(eos_token_id, next_token, generated)
    /\ cache' = cch \o ctxt
    /\ fwd' = FwdSampled(ctxt, start_pos, logits,
                         Penalised(logits, repetition_penalty, repeat_last_n, toks),
                         next_token)

NextToken(toks, generated, max, cch, context_size, name) ==
    /\ op' = name
    /\ max_new_tokens' = max
    /\ IF BudgetExhausted(generated, max)
       THEN Refused(toks, generated, max, cch, context_size)
       ELSE LET start_pos == SaturatingSub(Len(toks), context_size)
                ctxt == SubSeq(toks, start_pos + 1, Len(toks))
            IN  \/ Failed(toks, generated, cch, ctxt, start_pos)
                \/ \E logits \in LogitsSet :
                     \E next_token \in
                          SampleSet(sampling,
                                    Penalised(logits, repetition_penalty,
                                              repeat_last_n, toks)) :
                       Sampled(toks, generated, cch, ctxt, start_pos, logits, next_token)

(***************************************************************************)
(* Configurations and arguments the session is exercised with.             *)
(***************************************************************************)
Temperature06 == F64(60000000)
Config(eos, temperature, penalty, top_p, top_k, max) ==
    [eos_token_id |-> eos, temperature |-> temperature, repetition_penalty |-> penalty,
     top_p |-> top_p, top_k |-> top_k, max_new_tokens |-> max]
SessionConfigs ==
    {Config(Some(Single(2)), None, None, None, None, None),
     Config(Some(Single(2)), None, Some(2), None, None, Some(1)),
     Config(Some(Multi(<<1, 2>>)), Some(Temperature06), Some(1), None, None, Some(1)),
     Config(Some(Multi(<<>>)), Some(Temperature06), Some(2), None, Some(2), None),
     Config(None, Some(Temperature06), None, None, None, Some(1)),
     Config(None, None, Some(2), None, Some(2), Some(2))}
RepeatWindows == {0, 2}
Prompts == {<<>>, <<0>>, <<1, 0>>}

StreamIdle ==
    /\ s_tokens = <<>>
    /\ prev_index = 0
    /\ current_index = 0
    /\ s_ret = None
    /\ s_op = "none"
    /\ emitted = <<>>
    /\ s_pushed = <<>>
    /\ cleared = FALSE

\* no index file is being read
IndexIdle ==
    /\ weight_map = [kind |-> "absent", values |-> <<>>]
    /\ safetensors_files = <<>>
    /\ resolved = <<>>
    /\ i_op = "none"

\* no Pipeline::run in progress
RunIdle ==
    /\ run_tokens = <<>>
    /\ msg_len = 0
    /\ run_prev_index = 0
    /\ run_current_index = 0
    /\ run_generated = 0
    /\ run_max = 0
    /\ printed = <<>>
    /\ run_pc = "none"

\* no second session
TwinIdle ==
    /\ sessions = <<>>
    /\ calls = <<>>
    /\ t_op = 0

\* no pipeline beside a session
PairIdle ==
    /\ pipeline = <<>>
    /\ p_run = <<>>
    /\ session = <<>>
    /\ request = <<>>
    /\ served = 0
    /\ pair_pc = "none"

ExtIdle == IndexIdle /\ RunIdle /\ TwinIdle /\ PairIdle

Init ==
    /\ config \in SessionConfigs
    /\ sampling = Unresolved
    /\ eos_ids = None
    /\ pc = "config"
    /\ repetition_penalty = 1
    /\ repeat_last_n = 0
    /\ eos_token_id = <<>>
    /\ max_new_tokens = 0
    /\ generated_tokens = 0
    /\ tokens = <<>>
    /\ cache = <<>>
    /\ op = "none"
    /\ ret = NoRet
    /\ outs = <<>>
    /\ drawn = <<>>
    /\ applied = FALSE
    /\ fwd = NoFwd
    /\ promptLen = 0
    /\ applyArgs = NoArgs
    /\ StreamIdle
    /\ ExtIdle

\* TextGeneration::new (generation.rs 108-126); unwrap() of an absent EOS panics
New(last_n) ==
    /\ pc = "config"
    /\ op' = "new"
    /\ IF IsSome(GetEosTokenId(config))
       THEN /\ pc' = "session"
            /\ sampling' = Sampling(config)
            /\ repetition_penalty' = GetRepetitionPenaltyOr(config, 1)
            /\ repeat_last_n' = last_n
            /\ eos_token_id' = Unwrap(GetEosTokenId(config))
            /\ max_new_tokens' = GetMaxNewTokensOr(config, 0)
       ELSE /\ pc' = "panic"
            /\ UNCHANGED <<sampling, repetition_penalty, repeat_last_n, eos_token_id,
                           max_new_tokens>>
    /\ generated_tokens' = 0
    /\ tokens' = <<>>
    /\ UNCHANGED <<config, eos_ids, cache, ret, outs, drawn, applied, fwd, promptLen,
                   applyArgs, strVars, extVars>>

\* TextGeneration::apply (generation.rs 128-134)
ApplyWithoutReset(ids, max) ==
    /\ pc = "session"
    /\ NextToken(ids, 0, max, cache, Len(ids), "apply")
    /\ outs' = <<ret'>>
    /\ drawn' = IF fwd'.sampled THEN <<fwd'.token>> ELSE <<>>
    /\ applied' = TRUE
    /\ promptLen' = Len(ids)
    /\ applyArgs' = [ids |-> ids, max_new_tokens |-> max]
    /\ UNCHANGED <<config, sampling, eos_ids, pc, repetition_penalty, repeat_last_n,
                   eos_token_id, strVars, extVars>>
ApplyKeepsCounter(ids, max) ==
    /\ pc = "session"
    /\ NextToken(ids, generated_tokens, max, <<>>, Len(ids), "apply")
    /\ outs' = <<ret'>>
    /\ drawn' = IF fwd'.sampled THEN <<fwd'.token>> ELSE <<>>
    /\ applied' = TRUE
    /\ promptLen' = Len(ids)
    /\ applyArgs' = [ids |-> ids, max_new_tokens |-> max]
    /\ UNCHANGED <<config, sampling, eos_ids, pc, repetition_penalty, repeat_last_n,
                   eos_token_id, strVars, extVars>>
Apply(ids, max) ==
    /\ pc = "session"
    /\ NextToken(ids, 0, max, <<>>, Len(ids), "apply")
    /\ outs' = <<ret'>>
    /\ drawn' = IF fwd'.sampled THEN <<fwd'.token>> ELSE <<>>
    /\ applied' = TRUE
    /\ promptLen' = Len(ids)
    /\ applyArgs' = [ids |-> ids, max_new_tokens |-> max]
    /\ UNCHANGED <<config, sampling, eos_ids, pc, repetition_penalty, repeat_last_n,
                   eos_token_id, strVars, extVars>>

\* TextGeneration::next (generation.rs 136-138)
NextResendsHistory ==
    /\ pc = "session"
    /\ Len(outs) < MaxCalls
    /\ NextToken(tokens, generated_tokens, max_new_tokens, cache, Len(tokens), "next")
    /\ outs' = Append(outs, ret')
    /\ drawn' = IF fwd'.sampled THEN Append(drawn, fwd'.token) ELSE drawn
    /\ UNCHANGED <<applied, config, sampling, eos_ids, pc, repetition_penalty,
                   repeat_last_n, eos_token_id, promptLen, applyArgs, strVars, extVars>>
Next_ ==
    /\ pc = "session"
    /\ Len(outs) < MaxCalls
    /\ NextToken(tokens, generated_tokens, max_new_tokens, cache, 1, "next")
    /\ outs' = Append(outs, ret')
    /\ drawn' = IF fwd'.sampled THEN Append(drawn, fwd'.token) ELSE drawn
    /\ UNCHANGED <<applied, config, sampling, eos_ids, pc, repetition_penalty,
                   repeat_last_n, eos_token_id, promptLen, applyArgs, strVars, extVars>>

Next ==
    \/ \E last_n \in RepeatWindows : New(last_n)
    \/ \E ids \in Prompts, max \in 0 .. MaxBudget : Apply(ids, max)
    \/ Next_

Spec == Init /\ [][Next]_vars

(***************************************************************************)
(* The tokenizer capability behind TextOutputStream::decode: a byte-level  *)
(* BPE tokenizer, as the Qwen 2.5 one of tests/qwen_25.rs.  A token stands *)
(* for a run of bytes; decode(tokens, skip_special_tokens = true) drops the*)
(* special tokens, concatenates the bytes of the others and converts them  *)
(* with String::from_utf8_lossy.  Bytes are named by their UTF-8 role and  *)
(* characters by their encoding:                                           *)
(*   byte "a"  an ASCII letter or digit      char "a"    1 byte, alnum     *)
(*   byte "_"  an ASCII space or punctuation char "_"    1 byte            *)
(*   byte "L2" lead byte of a 2-byte letter  char "e2"   2 bytes, alnum    *)
(*   byte "L3" lead byte of a 3-byte letter  char "c3"   3 bytes, alnum    *)
(*   byte "K"  a continuation byte           char "FFFD" 3 bytes, U+FFFD   *)
(***************************************************************************)
StreamVocab == 0 .. 8
SpecialTokens == {5}       \* e.g. <|im_end|>
TokenBytes(t) ==
    CASE t = 0 -> <<"a">>
      [] t = 1 -> <<"_">>
      [] t = 2 -> <<"L2">>
      [] t = 3 -> <<"K">>
      [] t = 4 -> <<"L3", "K">>
      [] t = 6 -> <<"L3">>
      [] t = 7 -> <<"K", "a">>
      [] t = 8 -> <<"a", "L2">>
      [] OTHER -> <<>>

RECURSIVE BytesOf(_)
BytesOf(toks) ==
    IF toks = <<>> THEN <<>>
    ELSE (IF Head(toks) \in SpecialTokens THEN <<>> ELSE TokenBytes(Head(toks)))
         \o BytesOf(Tail(toks))

Drop(s, n) == SubSeq(s, n + 1, Len(s))

\* String::from_utf8_lossy: every maximal invalid run that is the prefix of a
\* valid sequence becomes one U+FFFD
RECURSIVE Utf8Lossy(_)
Utf8Lossy(bytes) ==
    IF bytes = <<>> THEN <<>>
    ELSE LET b == Head(bytes)
             k(i) == Len(bytes) >= i /\ bytes[i] = "K"
         IN  CASE b = "a" -> <<"a">> \o Utf8Lossy(Tail(bytes))
               [] b = "_" -> <<"_">> \o Utf8Lossy(Tail(bytes))
               [] b = "L2" /\ k(2) -> <<"e2">> \o Utf8Lossy(Drop(bytes, 2))
               [] b = "L3" /\ k(2) /\ k(3) -> <<"c3">> \o Utf8Lossy(Drop(bytes, 3))
               [] b = "L3" /\ k(2) /\ ~k(3) -> <<"FFFD">> \o Utf8Lossy(Drop(bytes, 2))
               [] OTHER -> <<"FFFD">> \o Utf8Lossy(Tail(bytes))

\* TextOutputStream::decode (generation.rs 277-279)
Decode(toks) == Utf8Lossy(BytesOf(toks))

\* char::len_utf8 and str::len
CharLen(c) ==
    CASE c = "a" -> 1
      [] c = "_" -> 1
      [] c = "e2" -> 2
      [] OTHER -> 3
RECURSIVE StrLen(_)
StrLen(text) == IF text = <<>> THEN 0 ELSE CharLen(Head(text)) + StrLen(Tail(text))

\* char::is_alphanumeric
IsAlphanumeric(c) == c \in {"a", "e2", "c3"}

\* str::is_char_boundary and str::split_at(n).1; split_at panics off a boundary
IsCharBoundary(text, n) == \E i \in 0 .. Len(text) : StrLen(SubSeq(text, 1, i)) = n
SplitAtTailWhole(text, n) == text
SplitAtTail(text, n) ==
    Drop(text, CHOOSE i \in 0 .. Len(text) : StrLen(SubSeq(text, 1, i)) = n)

\* generation.rs 283-288 and 302-307
PrevText(toks, prev, current) ==
    IF toks = <<>> THEN <<>> ELSE Decode(SubSeq(toks, prev + 1, current))

\* generation.rs 291: the fragment is returned when the text grew and ends in a
\* letter or digit
FlushableAnyEnd(text, prev_text) == StrLen(text) > StrLen(prev_text)
Flushable(text, prev_text) ==
    StrLen(text) > StrLen(prev_text) /\ IsAlphanumeric(text[Len(text)])

\* generation.rs 291: text.chars().last().unwrap() stands to the right of
\* `text.len() > prev_text.len() &&`, so it is evaluated only when the text grew
LastCharReachedAlways(text, prev_text) == TRUE
LastCharReached(text, prev_text) == StrLen(text) > StrLen(prev_text)

\* generation.rs 309
HasRestAlphanumeric(text, prev_text) ==
    StrLen(text) > StrLen(prev_text) /\ IsAlphanumeric(text[Len(text)])
HasRest(text, prev_text) == StrLen(text) > StrLen(prev_text)

(***************************************************************************)
(* TextOutputStream (generation.rs 252-330); Tokenizer::next_token,        *)
(* decode_rest, decode_all and clear of tokenizers.rs 26-73 are the same   *)
(* code on the same four fields.                                           *)
(***************************************************************************)
\* generation.rs 289: self.tokens.push(token)
PushStreamDedup(toks, token) ==
    IF toks # <<>> /\ toks[Len(toks)] = token THEN toks ELSE Append(toks, token)
PushStream(toks, token) == Append(toks, token)

\* TextOutputStream::next_token (generation.rs 282-299)
Push(token) ==
    /\ s_op # "panic"
    /\ Len(s_tokens) < MaxPush
    /\ LET prev_text == PrevText(s_tokens, prev_index, current_index)
           pushed == PushStream(s_tokens, token)
           text == Decode(Drop(pushed, prev_index))
       IN  /\ s_tokens' = pushed
           /\ s_pushed' = Append(s_pushed, token)
           /\ cleared' = cleared
           /\ IF LastCharReached(text, prev_text) /\ text = <<>>
              THEN \* unwrap() of the last character of an empty string
                   /\ s_op' = "panic"
                   /\ s_ret' = None
                   /\ UNCHANGED <<prev_index, current_index, emitted>>
              ELSE IF Flushable(text, prev_text)
              THEN IF IsCharBoundary(text, StrLen(prev_text))
                   THEN /\ prev_index' = current_index
                        /\ current_index' = Len(pushed)
                        /\ s_ret' = Some(SplitAtTail(text, StrLen(prev_text)))
                        /\ emitted' = emitted \o SplitAtTail(text, StrLen(prev_text))
                        /\ s_op' = "push"
                   ELSE /\ s_op' = "panic"
                        /\ s_ret' = None
                        /\ UNCHANGED <<prev_index, current_index, emitted>>
              ELSE /\ s_ret' = None
                   /\ s_op' = "push"
                   /\ UNCHANGED <<prev_index, current_index, emitted>>
    /\ UNCHANGED <<cfgVars, genVars, extVars>>

\* TextOutputStream::decode_rest (generation.rs 301-315)
DecodeRest ==
    /\ s_op # "panic"
    /\ LET prev_text == PrevText(s_tokens, prev_index, current_index)
           text == Decode(Drop(s_tokens, prev_index))
       IN  IF HasRest(text, prev_text)
           THEN IF IsCharBoundary(text, StrLen(prev_text))
                THEN /\ s_ret' = Some(SplitAtTail(text, StrLen(prev_text)))
                     /\ s_op' = "decode_rest"
                ELSE /\ s_ret' = None
                     /\ s_op' = "panic"
           ELSE /\ s_ret' = None
                /\ s_op' = "decode_rest"
    /\ UNCHANGED <<s_tokens, prev_index, current_index, emitted, s_pushed, cleared, cfgVars,
                   genVars, extVars>>

\* TextOutputStream::decode_all (generation.rs 317-319)
DecodeAll ==
    /\ s_op # "panic"
    /\ s_ret' = Some(Decode(s_tokens))
    /\ s_op' = "decode_all"
    /\ UNCHANGED <<s_tokens, prev_index, current_index, emitted, s_pushed, cleared, cfgVars,
                   genVars, extVars>>

\* TextOutputStream::clear (generation.rs 325-329)
ClearKeepsOffsets ==
    /\ s_op # "panic"
    /\ s_tokens' = <<>>
    /\ s_ret' = None
    /\ s_op' = "clear"
    /\ emitted' = <<>>
    /\ s_pushed' = <<>>
    /\ cleared' = TRUE
    /\ UNCHANGED <<prev_index, current_index, cfgVars, genVars, extVars>>
Clear ==
    /\ s_op # "panic"
    /\ s_tokens' = <<>>
    /\ prev_index' = 0
    /\ current_index' = 0
    /\ s_ret' = None
    /\ s_op' = "clear"
    /\ emitted' = <<>>
    /\ s_pushed' = <<>>
    /\ cleared' = TRUE
    /\ UNCHANGED <<cfgVars, genVars, extVars>>

SessionIdle ==
    /\ sampling = Unresolved
    /\ eos_ids = None
    /\ pc = "config"
    /\ repetition_penalty = 1
    /\ repeat_last_n = 0
    /\ eos_token_id = <<>>
    /\ max_new_tokens = 0
    /\ generated_tokens = 0
    /\ tokens = <<>>
    /\ cache = <<>>
    /\ op = "none"
    /\ ret = NoRet
    /\ outs = <<>>
    /\ drawn = <<>>
    /\ applied = FALSE
    /\ fwd = NoFwd
    /\ promptLen = 0
    /\ applyArgs = NoArgs

\* TextOutputStream::new (generation.rs 260-267)
InitStream ==
    /\ config = Config(None, None, None, None, None, None)
    /\ SessionIdle
    /\ StreamIdle
    /\ ExtIdle

NextStream ==
    \/ \E token \in StreamVocab : Push(token)
    \/ DecodeRest
    \/ DecodeAll
    \/ Clear

SpecStream == InitStream /\ [][NextStream]_vars

(***************************************************************************)
(* GenerationConfig on its own (generation.rs 17-92): a parsed or          *)
(* hand-built configuration, its setters and sampling().                   *)
(***************************************************************************)
TopP09 == F64(90000000)
Temperatures ==
    {None, Some(NaN), Some(F64(0 - 100000000)), Some(F64(0)), Some(F64(9)),
     Some(Threshold), Some(F64(11)), Some(Temperature06)}
TopKs == {None, Some(1), Some(40)}
TopPs == {None, Some(TopP09)}

EosValues == {None, Some(Single(2)), Some(Multi(<<2, 1>>)), Some(Multi(<<>>))}

InitConfig ==
    /\ config \in [eos_token_id : EosValues, temperature : Temperatures,
                   repetition_penalty : {None}, top_p : TopPs, top_k : TopKs,
                   max_new_tokens : {None}]
    /\ SessionIdle
    /\ StreamIdle
    /\ ExtIdle

genRest == <<pc, repetition_penalty, repeat_last_n, eos_token_id, max_new_tokens,
             generated_tokens, tokens, cache, ret, outs, drawn, applied, fwd, promptLen,
             applyArgs>>

\* GenerationConfig::set_eos_token_id (generation.rs 36-38)
SetEosTokenId(id) ==
    /\ config' = [config EXCEPT !.eos_token_id = Some(Single(id))]
    /\ op' = "set_eos_token_id"
    /\ UNCHANGED <<sampling, eos_ids, genRest, strVars, extVars>>

\* GenerationConfig::set_temperature (generation.rs 40-42)
SetTemperature(temperature) ==
    /\ config' = [config EXCEPT !.temperature = Some(temperature)]
    /\ op' = "set_temperature"
    /\ UNCHANGED <<sampling, eos_ids, genRest, strVars, extVars>>

\* GenerationConfig::set_top_p (generation.rs 48-50)
SetTopP(top_p) ==
    /\ config' = [config EXCEPT !.top_p = Some(top_p)]
    /\ op' = "set_top_p"
    /\ UNCHANGED <<sampling, eos_ids, genRest, strVars, extVars>>

\* GenerationConfig::set_top_k (generation.rs 52-54)
SetTopK(top_k) ==
    /\ config' = [config EXCEPT !.top_k = Some(top_k)]
    /\ op' = "set_top_k"
    /\ UNCHANGED <<sampling, eos_ids, genRest, strVars, extVars>>

\* GenerationConfig::sampling (generation.rs 72-86), called on the configuration
ResolveSampling ==
    /\ sampling' = Sampling(config)
    /\ op' = "sampling"
    /\ UNCHANGED <<config, eos_ids, genRest, strVars, extVars>>

\* GenerationConfig::get_eos_token_id (generation.rs 56-62), called on the
\* configuration
ResolveEos ==
    /\ eos_ids' = GetEosTokenId(config)
    /\ op' = "get_eos_token_id"
    /\ UNCHANGED <<config, sampling, genRest, strVars, extVars>>

NextConfig ==
    \/ \E id \in {1} : SetEosTokenId(id)
    \/ ResolveEos
    \/ \E t \in Temperatures \ {None} : SetTemperature(Unwrap(t))
    \/ \E p \in TopPs \ {None} : SetTopP(Unwrap(p))
    \/ \E k \in TopKs \ {None} : SetTopK(Unwrap(k))
    \/ ResolveSampling

SpecConfig == InitConfig /\ [][NextConfig]_vars

(***************************************************************************)
(* Properties of the session (Spec).                                       *)
(***************************************************************************)
IsStep == op \in {"apply", "next"}
NoFailure == \A k \in 1 .. Len(outs) : outs[k].kind # "Candle"
NoEosDrawn == \A j \in 1 .. Len(drawn) : ~(drawn[j] \in Range(eos_token_id))

\* C1: in every reachable state of a session, generated_tokens <= max_new_tokens.
C1_GeneratedWithinBudget == generated_tokens <= max_new_tokens

\* the budget was used up (two tokens generated) and the next call was refused
C1_Witness ==
    /\ pc = "session"
    /\ generated_tokens = max_new_tokens
    /\ generated_tokens >= 2
    /\ ret.kind = "MaxNewTokenExceeded"

\* C2: after apply(ids, N), when no drawn token is an EOS and nothing failed,
\* step calls 1..N each return the token drawn and every later call, call N+1
\* first, fails with MaxNewTokenExceeded{N}.
C2_BudgetExact ==
    (applied /\ NoFailure /\ NoEosDrawn) =>
        \A k \in 1 .. Len(outs) :
            IF k <= max_new_tokens
            THEN k <= Len(drawn) /\ outs[k] = Ok(drawn[k])
            ELSE outs[k] = ErrMaxNewTokenExceeded(max_new_tokens)

\* N = 2 tokens were returned and call N + 1 = 3 was refused
C2_Witness ==
    /\ applied /\ NoFailure /\ NoEosDrawn
    /\ max_new_tokens = 2
    /\ Len(outs) = 3
    /\ outs[2].kind = "Ok"
    /\ outs[3].kind = "MaxNewTokenExceeded"

\* C3: a step returns Eos{token, n} exactly when the token it drew is in the
\* EOS set; the token is then the last of the history and n is the number of
\* tokens drawn since the last apply, this one included.
C3_EosExact ==
    IsStep =>
        /\ (ret.kind = "Eos") <=> (fwd.sampled /\ fwd.token \in Range(eos_token_id))
        /\ ret.kind = "Eos" =>
            /\ ret.token = fwd.token
            /\ tokens # <<>>
            /\ tokens[Len(tokens)] = fwd.token
            /\ ret.generated = Len(drawn)

\* an EOS drawn on the second step after an apply
C3_Witness ==
    /\ applied
    /\ op = "next"
    /\ ret.kind = "Eos"
    /\ ret.generated = 2

\* C4: with EOS set {e} and budget N, while the tokens drawn before the current
\* call are not e and nothing failed, each of the calls 1..N returns what it
\* drew: the token, or Eos{e, k} on the call k that drew e.  The budget check
\* refuses none of the calls 1..N.
C4_EndToEnd ==
    (/\ applied
     /\ Len(eos_token_id) = 1
     /\ NoFailure
     /\ Len(outs) <= max_new_tokens
     /\ \A j \in 1 .. Len(drawn) - 1 : drawn[j] # eos_token_id[1])
    => /\ Len(drawn) = Len(outs)
       /\ \A k \in 1 .. Len(outs) :
            outs[k] = IF drawn[k] = eos_token_id[1]
                      THEN ErrEos(eos_token_id[1], k)
                      ELSE Ok(drawn[k])

\* budget 2, EOS set {2}: the first call returned a token, the second Eos{2, 2}
C4_Witness ==
    /\ applied
    /\ eos_token_id = <<2>>
    /\ max_new_tokens = 2
    /\ Len(outs) = 2
    /\ outs[1].kind = "Ok"
    /\ outs[2] = ErrEos(2, 2)

(***************************************************************************)
(* Properties of the streaming detokenizer (SpecStream).                   *)
(***************************************************************************)
IsPrefix(a, b) == Len(a) <= Len(b) /\ SubSeq(b, 1, Len(a)) = a
Fragment(r) == IF r = None THEN <<>> ELSE Unwrap(r)

\* C5: round trip: the fragments returned by the pushes since the detokenizer
\* was created, followed by the fragment of a decode_rest, are decode_all of
\* the history; no call panics in split_at.
C5_RoundTrip ==
    /\ s_op # "panic"
    /\ s_op = "decode_rest" => emitted \o Fragment(s_ret) = Decode(s_tokens)

\* a 2-byte letter was delivered by a push and decode_rest delivers the rest
C5_Witness ==
    /\ s_op = "decode_rest"
    /\ s_ret # None
    /\ \E i \in 1 .. Len(emitted) : emitted[i] = "e2"
    /\ current_index < Len(s_tokens)

\* C6: after any pushes the concatenation of the fragments returned so far is a
\* prefix of decode_all of the current history.
C6_NoReEmission == IsPrefix(emitted, Decode(s_tokens))

\* a second fragment has been returned
C6_Witness ==
    /\ s_op = "push"
    /\ s_ret # None
    /\ prev_index > 0
    /\ Len(emitted) > Len(Unwrap(s_ret))

\* C7: prev_index <= current_index <= history length in every state, and a
\* push never decreases either offset.
C7_Offsets ==
    /\ [](prev_index <= current_index /\ current_index <= Len(s_tokens))
    /\ [][s_op' = "push" =>
            (prev_index' >= prev_index /\ current_index' >= current_index)]_vars

\* both offsets have moved and a token is pending behind current_index
C7_Witness ==
    /\ s_op = "push"
    /\ 0 < prev_index
    /\ prev_index < current_index
    /\ current_index < Len(s_tokens)

\* the bytes end inside a multi-byte character
Pending(bytes) ==
    LET n == Len(bytes)
    IN  \/ n >= 1 /\ bytes[n] \in {"L2", "L3"}
        \/ n >= 2 /\ bytes[n - 1] = "L3" /\ bytes[n] = "K"

\* C8: a push that leaves the history inside a multi-byte character returns
\* nothing, and a push that returns a fragment has then delivered the whole
\* decoded history, the characters withheld before included.
C8_NoSplitCharacter ==
    s_op = "push" =>
        /\ Pending(BytesOf(s_tokens)) => s_ret = None
        /\ s_ret # None => emitted = Decode(s_tokens)

\* the lead byte of a 2-byte letter was withheld; the push of its continuation
\* byte returns the letter whole
C8_Witness ==
    /\ s_op = "push"
    /\ Len(s_tokens) >= 3
    /\ s_tokens[Len(s_tokens) - 1] = 2
    /\ s_tokens[Len(s_tokens)] = 3
    /\ prev_index > 0
    /\ s_ret = Some(<<"e2">>)

(***************************************************************************)
(* Properties of the sampling resolver (SpecConfig).                       *)
(***************************************************************************)
\* C9: a configuration whose temperature is absent or below 1e-7 resolves to
\* ArgMax whatever top_k and top_p are.
C9_ArgMaxWhenNegligible ==
    (/\ op = "sampling"
     /\ \/ config.temperature = None
        \/ FLt(Unwrap(config.temperature), Threshold))
    => sampling = ArgMax

\* temperature 9e-8 with top_k and top_p both set resolved to ArgMax
C9_Witness ==
    /\ op = "sampling"
    /\ config.temperature = Some(F64(9))
    /\ IsSome(config.top_k)
    /\ IsSome(config.top_p)
    /\ sampling = ArgMax

\* C10: sampling() always yields one of the five strategies, and for a
\* temperature present and at least 1e-7 the strategy is chosen by the presence
\* of top_k and top_p and carries k, p and the temperature unchanged.
C10_StrategyByPresence ==
    op = "sampling" =>
        /\ sampling.kind \in {"ArgMax", "All", "TopK", "TopP", "TopKThenTopP"}
        /\ (IsSome(config.temperature) /\ FGe(Unwrap(config.temperature), Threshold)) =>
            /\ sampling.temperature = config.temperature
            /\ sampling.k = config.top_k
            /\ sampling.p = config.top_p
            /\ sampling.kind =
                 CASE config.top_k = None /\ config.top_p = None -> "All"
                   [] config.top_k # None /\ config.top_p = None -> "TopK"
                   [] config.top_k = None /\ config.top_p # None -> "TopP"
                   [] OTHER -> "TopKThenTopP"

\* temperature exactly 1e-7 with top_k = 40 and top_p = 0.9
C10_Witness ==
    /\ op = "sampling"
    /\ config.temperature = Some(Threshold)
    /\ sampling = TopKThenTopP(40, TopP09, Threshold)

\* C11: get_eos_token_id maps a single EOS id to the one-element list holding
\* it, a list of EOS ids to the same ids in their original order, and an absent
\* field to no EOS set.
C11_EosResolution ==
    op = "get_eos_token_id" =>
        IF config.eos_token_id = None THEN eos_ids = None
        ELSE LET e == config.eos_token_id[1]
             IN  /\ e.tag = "Single" => eos_ids = <<(<<e.id>>)>>
                 /\ e.tag = "Multi" =>
                        /\ Len(eos_ids) = 1
                        /\ Len(eos_ids[1]) = Len(e.ids)
                        /\ \A i \in 1 .. Len(e.ids) : eos_ids[1][i] = e.ids[i]

\* a list of two EOS ids was resolved, and came back whole and in order
C11_Witness ==
    /\ op = "get_eos_token_id"
    /\ config.eos_token_id = <<Multi(<<2, 1>>)>>
    /\ eos_ids = <<(<<2, 1>>)>>

\* C12 as stated: apply(initial_tokens, max_new_tokens), called in any session
\* state, resets the model cache, discards the previous history and counter,
\* and produces exactly one token: when it returns (the model not having
\* failed), the history is initial_tokens followed by one sampled token,
\* generated_tokens is 1 and the budget is max_new_tokens.
C12_ApplyAlwaysOneToken ==
    (op = "apply" /\ ret.kind # "Candle") =>
        /\ fwd.sampled
        /\ tokens = applyArgs.ids \o <<fwd.token>>
        /\ generated_tokens = 1
        /\ max_new_tokens = applyArgs.max_new_tokens
        /\ cache = applyArgs.ids

\* C12, amended: apply resets the model cache, replaces the history by
\* initial_tokens, the counter by 0 and the budget by max_new_tokens, and then
\* runs one step.  With max_new_tokens >= 1 and no model failure that step
\* produces exactly one token: the history is initial_tokens followed by the
\* sampled token and generated_tokens is 1.  With max_new_tokens = 0 the step
\* is refused with MaxNewTokenExceeded, and on a model failure it returns the
\* failure: in both cases the history is initial_tokens alone and
\* generated_tokens is 0.
C12_ApplyResetsThenSteps ==
    op = "apply" =>
        /\ max_new_tokens = applyArgs.max_new_tokens
        /\ CASE applyArgs.max_new_tokens = 0 ->
                    /\ ret = ErrMaxNewTokenExceeded(0)
                    /\ ~fwd.called
                    /\ tokens = applyArgs.ids
                    /\ generated_tokens = 0
                    /\ cache = <<>>
             [] applyArgs.max_new_tokens > 0 /\ ret.kind = "Candle" ->
                    /\ tokens = applyArgs.ids
                    /\ generated_tokens = 0
                    /\ cache \in {<<>>, applyArgs.ids}
             [] OTHER ->
                    /\ ret.kind \in {"Ok", "Eos"}
                    /\ fwd.sampled
                    /\ ret.token = fwd.token
                    /\ tokens = applyArgs.ids \o <<fwd.token>>
                    /\ generated_tokens = 1
                    /\ cache = applyArgs.ids

\* apply with a budget of 2 on a prompt of two tokens produced one token
C12_Witness ==
    /\ op = "apply"
    /\ applyArgs = [ids |-> <<1, 0>>, max_new_tokens |-> 2]
    /\ ret.kind = "Ok"
    /\ tokens = <<1, 0, ret.token>>
    /\ generated_tokens = 1

\* C13 as stated: when a step fails with MaxNewTokensExceeded, no token is
\* produced and nothing changes: the model forward is not invoked, and the
\* history, generated_tokens and budget are the same after the call (apply or
\* next) as before it.
C13_RefusalChangesNothing ==
    [][ret'.kind = "MaxNewTokenExceeded" /\ op' \in {"apply", "next"} =>
          /\ ~fwd'.called
          /\ tokens' = tokens
          /\ generated_tokens' = generated_tokens
          /\ max_new_tokens' = max_new_tokens]_vars

\* C13, amended: a step refused with MaxNewTokensExceeded produces no token and
\* invokes no forward.  When the call is next(), history, generated_tokens,
\* budget and model cache are the same after the call as before it.  When the
\* call is apply(initial_tokens, 0), apply has already reset the session: the
\* cache is reset, the history is initial_tokens, generated_tokens 0, budget 0.
C13_RefusalLeavesStepState ==
    [][ret'.kind = "MaxNewTokenExceeded" /\ op' \in {"apply", "next"} =>
          /\ ~fwd'.called
          /\ fwd'.forwards = 0
          /\ op' = "next" =>
                /\ tokens' = tokens
                /\ generated_tokens' = generated_tokens
                /\ max_new_tokens' = max_new_tokens
                /\ cache' = cache
                /\ generated_tokens >= max_new_tokens
          /\ op' = "apply" =>
                /\ tokens' = applyArgs'.ids
                /\ generated_tokens' = 0
                /\ max_new_tokens' = 0
                /\ applyArgs'.max_new_tokens = 0
                /\ cache' = <<>>]_vars

\* next() was refused on a session that had used its budget of 2
C13_Witness ==
    /\ op = "next"
    /\ ret = ErrMaxNewTokenExceeded(2)
    /\ generated_tokens = 2
    /\ Len(tokens) = promptLen + 2
    /\ ~fwd.called

\* C14 as stated: the session's token history grows only by append: across any
\* sequence of apply and next calls its length never decreases and no existing
\* entry is changed.
C14_HistoryOnlyGrows ==
    [][op' \in {"apply", "next"} => IsPrefix(tokens, tokens')]_vars

\* C14, amended: across next calls the history grows only by append: a next
\* call leaves the history as it is or appends one token to it.  apply replaces
\* the history: after it the history is initial_tokens, followed by at most one
\* token.
C14_HistoryAppendOnly ==
    [][/\ op' = "next" =>
            /\ IsPrefix(tokens, tokens')
            /\ Len(tokens') \in {Len(tokens), Len(tokens) + 1}
            /\ Len(tokens') = Len(tokens) + 1 <=> ret'.kind \in {"Ok", "Eos"}
       /\ op' = "apply" =>
            /\ IsPrefix(applyArgs'.ids, tokens')
            /\ Len(tokens') <= Len(applyArgs'.ids) + 1]_vars

\* a next call appended its token to the history apply had left
C14_Witness ==
    /\ op = "next"
    /\ ret.kind = "Ok"
    /\ promptLen = 1
    /\ Len(outs) = 2
    /\ Len(tokens) = 3
    /\ tokens = applyArgs.ids \o drawn

\* a step of the current sequence (since the last apply) has returned Eos
EosReturned == \E k \in 1 .. Len(outs) : outs[k].kind = "Eos"

\* C15: generation terminates on EOS: once a step has returned Eos, no later
\* next() call generates a further token in that session (history and
\* generated_tokens do not grow) until apply starts a new sequence.
C15_NoTokenAfterEos ==
    [][EosReturned /\ op' = "next" =>
          /\ tokens' = tokens
          /\ generated_tokens' = generated_tokens]_vars

\* C16: constructing a generation session from a configuration that has no
\* eos_token_id fails: no session is created, whatever the other fields are.
C16_NoSessionWithoutEos ==
    config.eos_token_id = None =>
        /\ pc # "session"
        /\ op = "new" => pc = "panic"
        /\ op \in {"none", "new"}
        /\ ~applied
        /\ tokens = <<>>

\* new() was called on a configuration without eos_token_id whose other fields
\* are set, and panicked
C16_Witness ==
    /\ op = "new"
    /\ pc = "panic"
    /\ config.eos_token_id = None
    /\ config.repetition_penalty # None
    /\ config.top_k # None
    /\ config.max_new_tokens # None

\* C17: when a model forward call fails inside a step, the step returns that
\* failure to the caller without calling forward again, appends no token and
\* leaves history and generated_tokens unchanged (for the step inside apply:
\* as apply set them, initial_tokens and 0); a step calls forward at most once.
C17_FailurePropagates ==
    [][op' \in {"apply", "next"} =>
          /\ fwd'.forwards <= 1
          /\ ret'.kind = "Candle" =>
                /\ fwd'.forwards = 1
                /\ ~fwd'.sampled
                /\ ret'.token = NoToken
                /\ op' = "next" =>
                      /\ tokens' = tokens
                      /\ generated_tokens' = generated_tokens
                /\ op' = "apply" =>
                      /\ tokens' = applyArgs'.ids
                      /\ generated_tokens' = 0]_vars

\* the forward call of a next() failed after apply had generated one token
C17_Witness ==
    /\ op = "next"
    /\ ret = ErrCandle
    /\ fwd.forwards = 1
    /\ generated_tokens = 1
    /\ tokens = applyArgs.ids \o drawn
    /\ Len(drawn) = 1

\* C18: when the repetition penalty is 1.0 (configured, or defaulted because
\* the field is absent), the scores handed to the sampler in every step are
\* exactly the scores returned by the model: the penalty transform is not
\* applied.
C18_PenaltyOneIsIdentity ==
    (IsStep /\ fwd.sampled /\ config.repetition_penalty \in {None, Some(1)}) =>
        fwd.changed = {}

\* the penalty field is absent, the window holds two tokens of the history,
\* and the sampler saw the model's scores unchanged
C18_Witness ==
    /\ op = "next"
    /\ fwd.sampled
    /\ config.repetition_penalty = None
    /\ repeat_last_n = 2
    /\ Len(tokens) >= 3
    /\ fwd.changed = {}

(***************************************************************************)
(* Further properties of the detokenizer (SpecStream).                     *)
(***************************************************************************)
\* the tails of a text, cut between characters
Suffixes(text) == {SubSeq(text, i, Len(text)) : i \in 1 .. Len(text) + 1}

\* C19: decode_rest() changes nothing in the detokenizer (history, prev_index
\* and current_index are the same after it as before), and it returns the
\* pending text whenever decode(history[prev_index..]) is longer than
\* decode(history[prev_index..current_index]), whether or not that text ends
\* in an alphanumeric character; otherwise it returns nothing.
C19_DecodeRestIsPure ==
    [][s_op' = "decode_rest" =>
          /\ s_tokens' = s_tokens
          /\ prev_index' = prev_index
          /\ current_index' = current_index
          /\ LET text == Decode(Drop(s_tokens, prev_index))
                 prev_text == Decode(SubSeq(s_tokens, prev_index + 1, current_index))
             IN  IF StrLen(text) > StrLen(prev_text)
                 THEN /\ IsSome(s_ret')
                      /\ Unwrap(s_ret') \in Suffixes(text)
                      /\ StrLen(Unwrap(s_ret')) = StrLen(text) - StrLen(prev_text)
                      /\ prev_text \o Unwrap(s_ret') = text
                 ELSE s_ret' = None]_vars

\* decode_rest returned a pending text that does not end in a letter or digit,
\* for tokens pushed after the last returned fragment
C19_Witness ==
    /\ s_op = "decode_rest"
    /\ IsSome(s_ret)
    /\ Len(Unwrap(s_ret)) > 0
    /\ ~IsAlphanumeric(Unwrap(s_ret)[Len(Unwrap(s_ret))])
    /\ 0 < current_index
    /\ current_index < Len(s_tokens)

\* C20: after any sequence of push calls with tokens t1..tn on a fresh
\* detokenizer, its history is exactly t1..tn in order, whether or not each
\* push returned a fragment, so decode_all() equals decode of the full pushed
\* sequence.
C20_HistoryIsPushed ==
    /\ s_tokens = s_pushed
    /\ s_op = "decode_all" => s_ret = Some(Decode(s_pushed))

\* decode_all after four pushes, of which some returned a fragment and some
\* returned nothing, the same token having been pushed twice in a row
C20_Witness ==
    /\ s_op = "decode_all"
    /\ Len(s_pushed) = 4
    /\ s_pushed[1] = s_pushed[2]
    /\ emitted # <<>>
    /\ emitted # Decode(s_pushed)
    /\ s_ret = Some(Decode(s_pushed))

\* C25: push(token) returns a fragment if and only if, with prev_text =
\* decode(history[prev_index..current_index]) taken before the append and
\* text = decode(history[prev_index..]) taken after it, text is longer than
\* prev_text and its last character is alphanumeric; the fragment is then text
\* without its first len(prev_text) bytes, prev_index becomes the old
\* current_index and current_index becomes the history length.  Otherwise
\* push returns nothing and leaves both offsets unchanged while the token
\* stays appended.
C25_PushFlushRule ==
    [][s_op' = "push" =>
          LET prev_text == Decode(SubSeq(s_tokens, prev_index + 1, current_index))
              text == Decode(Drop(s_tokens', prev_index))
          IN  /\ Len(s_tokens') = Len(s_tokens) + 1
              /\ SubSeq(s_tokens', 1, Len(s_tokens)) = s_tokens
              /\ IF /\ StrLen(text) > StrLen(prev_text)
                    /\ IsAlphanumeric(text[Len(text)])
                 THEN /\ IsSome(s_ret')
                      /\ Unwrap(s_ret') \in Suffixes(text)
                      /\ StrLen(Unwrap(s_ret')) = StrLen(text) - StrLen(prev_text)
                      /\ prev_index' = current_index
                      /\ current_index' = Len(s_tokens')
                 ELSE /\ s_ret' = None
                      /\ prev_index' = prev_index
                      /\ current_index' = current_index]_vars

\* a push returned a fragment covering two tokens, the push before it having
\* returned nothing, after an earlier fragment had moved the offsets
C25_Witness ==
    /\ s_op = "push"
    /\ IsSome(s_ret)
    /\ prev_index > 0
    /\ current_index = Len(s_tokens)
    /\ current_index >= prev_index + 2

(***************************************************************************)
(* Further properties of the session (Spec).                               *)
(***************************************************************************)
\* the history as the last step found it: without the token the step pushed
HistoryAtForward == IF fwd.sampled THEN SubSeq(tokens, 1, Len(tokens) - 1) ELSE tokens

\* C26 as stated: in every model forward call the context is a suffix of the
\* current history and start_pos + context length = history length: apply
\* passes the whole initial sequence at start_pos 0, and next() passes only the
\* single most recently appended token at start_pos = history length - 1.
C26_ContextWindow ==
    (IsStep /\ fwd.called) =>
        /\ fwd.ctxt = Drop(HistoryAtForward, fwd.start_pos)
        /\ fwd.start_pos + Len(fwd.ctxt) = Len(HistoryAtForward)
        /\ op = "apply" => fwd.start_pos = 0 /\ fwd.ctxt = applyArgs.ids
        /\ op = "next" =>
              /\ Len(fwd.ctxt) = 1
              /\ fwd.start_pos = Len(HistoryAtForward) - 1

\* C26, amended: in every model forward call the context is a suffix of the
\* current history and start_pos + context length = history length: apply
\* passes the whole initial sequence at start_pos 0; next() on a non-empty
\* history passes only its last token at start_pos = history length - 1, and
\* next() on an empty history (before any apply, or after an apply of the
\* empty sequence that failed) passes the empty context at start_pos 0.
C26_ContextWindowSaturating ==
    (IsStep /\ fwd.called) =>
        /\ fwd.ctxt = Drop(HistoryAtForward, fwd.start_pos)
        /\ fwd.start_pos + Len(fwd.ctxt) = Len(HistoryAtForward)
        /\ op = "apply" => fwd.start_pos = 0 /\ fwd.ctxt = applyArgs.ids
        /\ (op = "next" /\ HistoryAtForward # <<>>) =>
              /\ fwd.ctxt = <<HistoryAtForward[Len(HistoryAtForward)]>>
              /\ fwd.start_pos = Len(HistoryAtForward) - 1
        /\ (op = "next" /\ HistoryAtForward = <<>>) =>
              /\ fwd.ctxt = <<>>
              /\ fwd.start_pos = 0
              /\ ~applied \/ (applyArgs.ids = <<>> /\ outs[1].kind = "Candle")

\* the next() after an apply of two tokens: the context is the one token that
\* apply appended, at start_pos 2
C26_Witness ==
    /\ op = "next"
    /\ fwd.called
    /\ promptLen = 2
    /\ Len(HistoryAtForward) = 3
    /\ fwd.start_pos = 2
    /\ fwd.ctxt = <<tokens[3]>>

\* usize min
Min(a, b) == IF a <= b THEN a ELSE b

\* C27: when the repetition penalty is not 1.0, the tokens whose scores are
\* penalised in a step are exactly the tokens occurring in the last
\* min(repeat_window, history length) entries of the history as it stands
\* before the new token is appended, prompt tokens included; with
\* repeat_window = 0 no score is changed.
C27_PenaltyWindow ==
    (IsStep /\ fwd.sampled /\ repetition_penalty # 1) =>
        LET h == HistoryAtForward
            n == Min(repeat_last_n, Len(h))
        IN  /\ fwd.changed = {h[i] : i \in Len(h) - n + 1 .. Len(h)}
            /\ repeat_last_n = 0 => fwd.changed = {}

\* penalty 2, window 2, history of three tokens: the last prompt token and the
\* generated one are penalised, the first prompt token, outside the window, is
\* not
C27_Witness ==
    /\ op = "next"
    /\ fwd.sampled
    /\ repetition_penalty = 2
    /\ repeat_last_n = 2
    /\ promptLen = 2
    /\ Len(HistoryAtForward) = 3
    /\ fwd.changed = {tokens[2], tokens[3]}
    /\ tokens[1] \notin fwd.changed

\* C28: in every reachable state of a generation session, history length =
\* (length of the initial_tokens given to the last apply, or 0 before any
\* apply) + generated_tokens; this also holds after a step that failed.
C28_HistoryLength ==
    /\ Len(tokens) = Len(applyArgs.ids) + generated_tokens
    /\ ~applied => applyArgs.ids = <<>>
    /\ applied => SubSeq(tokens, 1, Len(applyArgs.ids)) = applyArgs.ids

\* a next() failed after apply had generated one token from a two-token prompt
C28_Witness ==
    /\ op = "next"
    /\ ret = ErrCandle
    /\ Len(applyArgs.ids) = 2
    /\ generated_tokens = 1
    /\ Len(tokens) = 3

\* C29: from an apply onward, as long as no step fails (the apply produced its
\* token and no later step returned a model failure), the model is fed every
\* history token exactly once and in order: at each forward call start_pos
\* equals the number of tokens fed since the reset, and after each step the
\* tokens fed so far are the history without its last token.
C29_FedOnceInOrder ==
    (applied /\ NoFailure /\ outs[1].kind \in {"Ok", "Eos"}) =>
        /\ cache = SubSeq(tokens, 1, Len(tokens) - 1)
        /\ (IsStep /\ fwd.called) =>
              /\ fwd.start_pos = Len(cache) - Len(fwd.ctxt)
              /\ cache = SubSeq(cache, 1, fwd.start_pos) \o fwd.ctxt

\* apply fed the two prompt tokens and next() fed the token apply had drawn,
\* at start_pos 2
C29_Witness ==
    /\ op = "next"
    /\ NoFailure
    /\ fwd.sampled
    /\ fwd.start_pos = 2
    /\ Len(tokens) = 4
    /\ cache = SubSeq(tokens, 1, 3)
    /\ applyArgs.ids = <<1, 0>>

\* the caller of tests/qwen_25.rs 87-109: apply, then next() while the outcome
\* is a token; every outcome before the last one is a token
CallerLoop == applied /\ \A k \in 1 .. Len(outs) - 1 : outs[k].kind = "Ok"

\* C30: a caller that calls apply(ids, N) and then next() repeatedly until it
\* receives an outcome other than a token always stops: it receives Eos,
\* MaxNewTokensExceeded or a failure after at most N calls of next().
C30_CallerStops ==
    CallerLoop =>
        LET N == applyArgs.max_new_tokens
            nexts == Len(outs) - 1
        IN  /\ nexts <= N
            /\ (nexts = N \/ N = 0) =>
                  outs[Len(outs)].kind \in {"Eos", "MaxNewTokenExceeded", "Candle"}

\* apply(ids, 2) and the first next() returned tokens, the second next() was
\* refused: the loop stopped at its N-th call of next()
C30_Witness ==
    /\ CallerLoop
    /\ applyArgs.max_new_tokens = 2
    /\ Len(outs) = 3
    /\ outs[2].kind = "Ok"
    /\ outs[3] = ErrMaxNewTokenExceeded(2)

(***************************************************************************)
(* Shard index resolution: read_safetensors_index_file and load_safetensors*)
(* (lib.rs 14-41, the same code at repo.rs 180-206).  A value of the       *)
(* "weight_map" object is modelled by what Value::as_str gives for it:     *)
(* Some(filename) for a JSON string, None for anything else.  A HashSet is *)
(* a sequence without repetition; its iteration order is arbitrary.        *)
(***************************************************************************)
MaxTensors == 4     \* most tensor names in one weight_map

Shards == {"model-00001-of-00003.safetensors", "model-00002-of-00003.safetensors",
           "model-00003-of-00003.safetensors"}
IndexValues == {Some(f) : f \in Shards} \cup {None}
\* json.get("weight_map") (lib.rs 28-32): absent, not an object, or an object
NoWeightMap == [kind |-> "absent", values |-> <<>>]
NotAMap == [kind |-> "not a map", values |-> <<>>]
WeightMap(values) == [kind |-> "object", values |-> values]
Dir == "repo"

\* HashSet::insert (lib.rs 37)
VecPush(set, file) == Append(set, file)
HashSetInsert(set, file) == IF file \in Range(set) THEN set ELSE Append(set, file)

\* the loop of lib.rs 34-40 over weight_map.values()
RECURSIVE ReadValues(_, _)
ReadValues(values, set) ==
    IF values = <<>> THEN set
    ELSE ReadValues(Tail(values),
                    IF IsSome(Head(values))
                    THEN HashSetInsert(set, Unwrap(Head(values)))
                    ELSE set)

\* HashSet::into_iter: the elements, each once, in some order
IntoIter(set) ==
    LET n == Len(set)
        orders == {p \in [1 .. n -> 1 .. n] : \A i, j \in 1 .. n : p[i] = p[j] => i = j}
    IN  {[i \in 1 .. n |-> set[p[i]]] : p \in orders}

\* Path::join (lib.rs 19)
PathJoin(path, file) == <<path, file>>

InitIndex ==
    /\ config = Config(None, None, None, None, None, None)
    /\ SessionIdle
    /\ StreamIdle
    /\ weight_map \in {NoWeightMap, NotAMap}
                      \cup {WeightMap(values) :
                              values \in UNION {[1 .. n -> IndexValues] :
                                                   n \in 0 .. MaxTensors}}
    /\ safetensors_files = <<>>
    /\ resolved = <<>>
    /\ i_op = "none"
    /\ RunIdle
    /\ TwinIdle
    /\ PairIdle

\* load_safetensors (lib.rs 14-22) on an index whose weight_map is an object
LoadSafetensors ==
    /\ i_op = "none"
    /\ weight_map.kind = "object"
    /\ safetensors_files' = ReadValues(weight_map.values, <<>>)
    /\ \E order \in IntoIter(safetensors_files') :
         resolved' = [i \in 1 .. Len(order) |-> PathJoin(Dir, order[i])]
    /\ i_op' = "load_safetensors"
    /\ UNCHANGED <<weight_map, cfgVars, genVars, strVars, runVars, twinVars, pairVars>>

\* load_safetensors on an index without a weight_map object: bail! (lib.rs 29, 31)
LoadSafetensorsBails ==
    /\ i_op = "none"
    /\ weight_map.kind # "object"
    /\ i_op' = "bail"
    /\ UNCHANGED <<weight_map, safetensors_files, resolved, cfgVars, genVars, strVars,
                   runVars, twinVars, pairVars>>

NextIndex ==
    \/ LoadSafetensors
    \/ LoadSafetensorsBails

SpecIndex == InitIndex /\ [][NextIndex]_vars

\* the distinct filenames among the string values of the weight_map
DistinctShards ==
    {Unwrap(weight_map.values[i]) :
        i \in {j \in 1 .. Len(weight_map.values) : IsSome(weight_map.values[j])}}

\* C23: resolving a shard index returns each distinct shard filename of
\* weight_map exactly once, however many tensor names map to it: the number of
\* resolved files equals the number of distinct filenames.
C23_ShardsOnce ==
    i_op = "load_safetensors" =>
        /\ Len(resolved) = Cardinality(DistinctShards)
        /\ \A f \in DistinctShards :
              Cardinality({i \in 1 .. Len(resolved) : resolved[i] = PathJoin(Dir, f)}) = 1
        /\ \A i \in 1 .. Len(resolved) : \E f \in DistinctShards : resolved[i] = PathJoin(Dir, f)

\* four tensor names map to two shard files: two files are resolved
C23_Witness ==
    /\ i_op = "load_safetensors"
    /\ Len(weight_map.values) = 4
    /\ \A i \in 1 .. 4 : IsSome(weight_map.values[i])
    /\ Cardinality(DistinctShards) = 2
    /\ Len(resolved) = 2

(***************************************************************************)
(* Pipeline::run (pipeline.rs 105-167) with its private next_token and     *)
(* decode_rest (57-103): the generation loop with the detokenizer offsets  *)
(* seeded at the prompt length.  The sampled token is any token of the     *)
(* tokenizer's vocabulary; the tokenizer is the one of TextOutputStream.   *)
(***************************************************************************)
MaxRun == 3         \* largest max_new_tokens given to run

RunPrompts == {<<>>, <<0>>, <<1, 4>>}    \* tokenizer.encode(text) of the message
RunEos == {5}                            \* self.eos_token_id

\* pipeline.rs 65-69 and 90-94
RunPrevText(toks, src_len, prev, current) ==
    IF src_len = prev THEN <<>> ELSE Decode(SubSeq(toks, prev + 1, current))

InitRun ==
    /\ config = Config(None, None, None, None, None, None)
    /\ SessionIdle
    /\ StreamIdle
    /\ IndexIdle
    /\ RunIdle
    /\ TwinIdle
    /\ PairIdle

\* pipeline.rs 105-123: the message is encoded, the offsets start at its length
RunStart(prompt, max) ==
    /\ run_pc = "none"
    /\ run_tokens' = prompt
    /\ msg_len' = Len(prompt)
    /\ run_prev_index' = Len(prompt)
    /\ run_current_index' = Len(prompt)
    /\ run_generated' = 0
    /\ run_max' = max
    /\ printed' = <<>>
    /\ run_pc' = IF max = 0 THEN "done" ELSE "loop"
    /\ UNCHANGED <<cfgVars, genVars, strVars, idxVars, twinVars, pairVars>>

\* one iteration of the loop (pipeline.rs 124-155) in which forward, the
\* penalty or the sampler fails: `?` returns the error
RunStepFails ==
    /\ run_pc = "loop"
    /\ run_pc' = "error"
    /\ UNCHANGED <<run_tokens, msg_len, run_prev_index, run_current_index, run_generated,
                   run_max, printed, cfgVars, genVars, strVars, idxVars, twinVars, pairVars>>

\* one iteration of the loop (pipeline.rs 124-155) that samples next_token
RunStep(next_token) ==
    /\ run_pc = "loop"
    /\ LET toks == Append(run_tokens, next_token)
           left == IF run_generated + 1 = run_max THEN "done" ELSE "loop"
           prev_text == RunPrevText(toks, msg_len, run_prev_index, run_current_index)
           text == Decode(Drop(toks, run_prev_index))
       IN  /\ run_tokens' = toks
           /\ run_generated' = run_generated + 1
           /\ IF next_token \in RunEos
              THEN /\ run_pc' = "done"
                   /\ UNCHANGED <<run_prev_index, run_current_index, printed>>
              ELSE IF Flushable(text, prev_text)
                   THEN IF IsCharBoundary(text, StrLen(prev_text))
                        THEN /\ run_prev_index' = run_current_index
                             /\ run_current_index' = Len(toks)
                             /\ printed' = printed \o SplitAtTail(text, StrLen(prev_text))
                             /\ run_pc' = left
                        ELSE /\ run_pc' = "panic"
                             /\ UNCHANGED <<run_prev_index, run_current_index, printed>>
                   ELSE /\ run_pc' = left
                        /\ UNCHANGED <<run_prev_index, run_current_index, printed>>
    /\ UNCHANGED <<msg_len, run_max, cfgVars, genVars, strVars, idxVars, twinVars, pairVars>>

\* after the loop (pipeline.rs 156-166): decode_rest is printed; run then
\* reaches todo!()
RunFinish ==
    /\ run_pc = "done"
    /\ LET prev_text == RunPrevText(run_tokens, msg_len, run_prev_index, run_current_index)
           text == Decode(Drop(run_tokens, run_prev_index))
       IN  IF HasRest(text, prev_text)
           THEN IF IsCharBoundary(text, StrLen(prev_text))
                THEN /\ printed' = printed \o SplitAtTail(text, StrLen(prev_text))
                     /\ run_pc' = "finished"
                ELSE /\ run_pc' = "panic"
                     /\ UNCHANGED printed
           ELSE /\ run_pc' = "finished"
                /\ UNCHANGED printed
    /\ UNCHANGED <<run_tokens, msg_len, run_prev_index, run_current_index, run_generated,
                   run_max, cfgVars, genVars, strVars, idxVars, twinVars, pairVars>>

NextRun ==
    \/ \E prompt \in RunPrompts, max \in 0 .. MaxRun : RunStart(prompt, max)
    \/ RunStepFails
    \/ \E next_token \in StreamVocab : RunStep(next_token)
    \/ RunFinish

SpecRun == InitRun /\ [][NextRun]_vars

\* C24: when the detokenizer starts with both offsets at the length L of an
\* already-consumed prefix (as Pipeline::run does with the prompt), the
\* fragments emitted for the tokens appended afterwards, followed by the final
\* decode_rest fragment, concatenate to exactly decode(history[L..]): no text
\* is emitted twice and no prefix text is emitted.
C24_SeededRoundTrip ==
    run_pc = "finished" => printed = Decode(Drop(run_tokens, msg_len))

(***************************************************************************)
(* Two sessions.  Each TextGeneration value owns its model instance and    *)
(* its LogitsProcessor (generation.rs 95-96): a session is a record of its *)
(* fields.  The model instance is deterministic: its scores are a function *)
(* of its weights and of the tokens it has been fed since reset().  The    *)
(* LogitsProcessor owns a StdRng seeded at construction: a draw is a       *)
(* function of the seed, of the number of draws made before, and of the    *)
(* scores.                                                                 *)
(***************************************************************************)
MaxTwinCalls == 4   \* calls made on the two sessions together

TwinSessions == 1 .. 2
Seeds == {0, 1}
Weights == {0, 1}

\* the calls a session is driven with; fails: the model's forward fails
Call(name, ids, max, fails) ==
    [name |-> name, ids |-> ids, max_new_tokens |-> max, fails |-> fails]
TwinCalls ==
    {Call("apply", <<1, 0>>, 2, FALSE), Call("apply", <<0>>, 1, FALSE),
     Call("next", <<>>, 0, FALSE), Call("next", <<>>, 0, TRUE)}

TwinConfigs ==
    {Config(Some(Single(2)), Some(Temperature06), Some(2), None, None, None),
     Config(Some(Multi(<<1, 2>>)), None, None, None, None, Some(1))}

\* Module::forward of a deterministic model: the scores after the tokens fed
Sum(seq) == LET RECURSIVE S(_)
                S(q) == IF q = <<>> THEN 0 ELSE Head(q) + S(Tail(q))
            IN  S(seq)
ModelScores(weights, fed) ==
    [t \in Vocab |-> IF t = (weights + Sum(fed) + Len(fed)) % 3 THEN 2 ELSE 0 - 2]

\* LogitsProcessor::sample (generation.rs 163) with the generator's state:
\* ArgMax draws nothing from it
Draw(strategy, seed, draws, logits) ==
    LET set == SampleSet(strategy, logits)
        rank(t) == Cardinality({u \in set : u < t})
    IN  CHOOSE t \in set : rank(t) = (seed + draws) % Cardinality(set)
Drawn(strategy, draws) == IF strategy.kind = "ArgMax" THEN draws ELSE draws + 1

\* TextGeneration::new (generation.rs 108-126)
NewSession(c, seed, weights, last_n) ==
    [sampling |-> Sampling(c),
     seed |-> seed,
     draws |-> 0,
     weights |-> weights,
     fed |-> <<>>,
     repetition_penalty |-> GetRepetitionPenaltyOr(c, 1),
     repeat_last_n |-> last_n,
     eos_token_id |-> Unwrap(GetEosTokenId(c)),
     max_new_tokens |-> GetMaxNewTokensOr(c, 0),
     generated_tokens |-> 0,
     tokens |-> <<>>,
     outs |-> <<>>]

\* the generator and the model instance a session's step uses: its own
RngShared(ss, i) == ss[1].draws + ss[2].draws
RngOf(ss, i) == ss[i].draws
FedShared(ss, i) == ss[1].fed
FedOf(ss, i) == ss[i].fed

\* TextGeneration::apply / next (generation.rs 128-174) on session s, with the
\* generator state and the model cache the step finds
SessionStep(s, call, rng, cache_in) ==
    LET isApply == call.name = "apply"
        toks == IF isApply THEN call.ids ELSE s.tokens
        generated == IF isApply THEN 0 ELSE s.generated_tokens
        max == IF isApply THEN call.max_new_tokens ELSE s.max_new_tokens
        cch == IF isApply THEN <<>> ELSE cache_in
        context_size == IF isApply THEN Len(call.ids) ELSE 1
        start_pos == SaturatingSub(Len(toks), context_size)
        ctxt == SubSeq(toks, start_pos + 1, Len(toks))
        base == [s EXCEPT !.tokens = toks, !.generated_tokens = generated,
                          !.max_new_tokens = max, !.fed = cch, !.draws = rng]
    IN  IF BudgetExhausted(generated, max)
        THEN [base EXCEPT !.outs = Append(s.outs, ErrMaxNewTokenExceeded(max))]
        ELSE IF call.fails
        THEN [base EXCEPT !.outs = Append(s.outs, ErrCandle)]
        ELSE LET logits == ModelScores(s.weights, cch \o ctxt)
                 input == Penalised(logits, s.repetition_penalty, s.repeat_last_n, toks)
                 next_token == Draw(s.sampling, s.seed, rng, input)
             IN  [base EXCEPT !.tokens = PushHistory(toks, next_token),
                              !.generated_tokens = generated + 1,
                              !.fed = cch \o ctxt,
                              !.draws = Drawn(s.sampling, rng),
                              !.outs = Append(s.outs,
                                              StepOutcome(s.eos_token_id, next_token,
                                                          generated))]

\* both sessions are built from one configuration, seed and set of weights
InitTwin ==
    /\ config \in TwinConfigs
    /\ SessionIdle
    /\ StreamIdle
    /\ IndexIdle
    /\ RunIdle
    /\ PairIdle
    /\ \E seed \in Seeds, weights \in Weights :
         sessions = [i \in TwinSessions |-> NewSession(config, seed, weights, 2)]
    /\ calls = [i \in TwinSessions |-> <<>>]
    /\ t_op = 0

\* a call on session i (generation.rs 128-138)
TwinCall(i, call) ==
    /\ Len(calls[1]) + Len(calls[2]) < MaxTwinCalls
    /\ sessions' = [sessions EXCEPT
                      ![i] = SessionStep(sessions[i], call, RngOf(sessions, i),
                                         FedOf(sessions, i))]
    /\ calls' = [calls EXCEPT ![i] = Append(calls[i], call)]
    /\ t_op' = i
    /\ UNCHANGED <<cfgVars, genVars, strVars, idxVars, runVars, pairVars>>

NextTwin == \E i \in TwinSessions, call \in TwinCalls : TwinCall(i, call)

SpecTwin == InitTwin /\ [][NextTwin]_vars

\* session s driven alone with the calls cs
RECURSIVE Alone(_, _)
Alone(s, cs) ==
    IF cs = <<>> THEN s
    ELSE Alone(SessionStep(s, Head(cs), s.draws, s.fed), Tail(cs))

\* the session as TextGeneration::new builds it
Fresh(i) ==
    NewSession(config, sessions[i].seed, sessions[i].weights, sessions[i].repeat_last_n)

C31_NonEmptyFragments ==
    /\ [](s_op # "panic")
    /\ []((s_op \in {"push", "decode_rest"} /\ s_ret # None) =>
             Len(Unwrap(s_ret)) > 0)
    /\ [][s_op' \in {"push", "decode_rest"} =>
            LET prev_text == PrevText(s_tokens, prev_index, current_index)
                text == Decode(Drop(s_tokens', prev_index))
            IN  (text = <<>> \/ StrLen(text) <= StrLen(prev_text)) =>
                    s_ret' = None]_vars

\* a push whose whole pending text decodes to the empty string returned nothing
C31_Witness ==
    /\ s_op = "push"
    /\ s_tokens # <<>>
    /\ Decode(Drop(s_tokens, prev_index)) = <<>>
    /\ s_ret = None


\* C32: before any apply the budget of a session is the max_new_tokens of its
\* configuration, or 0 when the configuration has none, so that next() on a new
\* session without a configured budget fails with MaxNewTokenExceeded, calls
\* no forward and generates nothing; after apply(ids, n) the budget is n,
\* whatever the configuration says.
C32_Budget ==
    /\ []((pc = "session" /\ ~applied) =>
             max_new_tokens = (IF config.max_new_tokens = None
                               THEN 0 ELSE Unwrap(config.max_new_tokens)))
    /\ [](applied => max_new_tokens = applyArgs.max_new_tokens)
    /\ [][(op' = "next" /\ ~applied /\ config.max_new_tokens = None) =>
            /\ ret' = ErrMaxNewTokenExceeded(0)
            /\ ~fwd'.called
            /\ tokens' = <<>>
            /\ generated_tokens' = 0]_vars

\* next() on a new session whose configuration has no budget was refused
C32_Witness ==
    /\ op = "next"
    /\ ~applied
    /\ config.max_new_tokens = None
    /\ ret = ErrMaxNewTokenExceeded(0)
    /\ tokens = <<>>


(***************************************************************************)
(* A detokenizer as a value, for comparing the detokenizer of the model    *)
(* with a freshly constructed one that is given the same tokens.           *)
(***************************************************************************)
\* TextOutputStream::new (generation.rs 260-267)
FreshStream ==
    [tokens |-> <<>>, prev_index |-> 0, current_index |-> 0, ret |-> None,
     op |-> "none"]

\* TextOutputStream::next_token (generation.rs 282-299) on the detokenizer d
PushOn(d, token) ==
    LET prev_text == PrevText(d.tokens, d.prev_index, d.current_index)
        pushed == PushStream(d.tokens, token)
        text == Decode(Drop(pushed, d.prev_index))
    IN  IF d.op = "panic"
        THEN d
        ELSE IF \/ LastCharReached(text, prev_text) /\ text = <<>>
                \/ Flushable(text, prev_text) /\ ~IsCharBoundary(text, StrLen(prev_text))
        THEN [d EXCEPT !.tokens = pushed, !.ret = None, !.op = "panic"]
        ELSE IF Flushable(text, prev_text)
        THEN [tokens |-> pushed, prev_index |-> d.current_index,
              current_index |-> Len(pushed),
              ret |-> Some(SplitAtTail(text, StrLen(prev_text))), op |-> "push"]
        ELSE [d EXCEPT !.tokens = pushed, !.ret = None, !.op = "push"]

\* TextOutputStream::decode_rest (generation.rs 301-315) on the detokenizer d
RestOn(d) ==
    LET prev_text == PrevText(d.tokens, d.prev_index, d.current_index)
        text == Decode(Drop(d.tokens, d.prev_index))
    IN  IF HasRest(text, prev_text)
        THEN Some(SplitAtTail(text, StrLen(prev_text)))
        ELSE None

\* a freshly constructed detokenizer after next_token on each token of toks
RECURSIVE Replay(_)
Replay(toks) ==
    IF toks = <<>>
    THEN FreshStream
    ELSE PushOn(Replay(SubSeq(toks, 1, Len(toks) - 1)), toks[Len(toks)])

\* C33: clear() returns the detokenizer to its initial state (empty history,
\* both offsets 0) from any state, and after a clear every push and every
\* decode_rest leaves the state and returns the result that a freshly
\* constructed detokenizer leaves and returns when given the same tokens.
C33_ClearIsFresh ==
    /\ s_op = "clear" =>
          (s_tokens = <<>> /\ prev_index = 0 /\ current_index = 0 /\ s_pushed = <<>>)
    /\ (cleared /\ s_op # "panic") =>
          LET d == Replay(s_pushed)
          IN  /\ d.tokens = s_tokens
              /\ d.prev_index = prev_index
              /\ d.current_index = current_index
              /\ s_op = "push" => (d.op = "push" /\ s_ret = d.ret)
              /\ s_op = "decode_rest" => s_ret = RestOn(d)

\* after a clear the detokenizer has returned a second fragment and holds a
\* token not yet returned, which decode_rest has just returned
C33_Witness ==
    /\ cleared
    /\ s_op = "decode_rest"
    /\ s_ret # None
    /\ 0 < prev_index
    /\ prev_index < current_index
    /\ current_index < Len(s_tokens)


(***************************************************************************)
(* A Pipeline beside a TextGeneration.  Both are built from the same       *)
(* configuration and seed over models with the same weights, and both are  *)
(* given the same requests: Pipeline::run on one side, apply followed by   *)
(* next() until an error on the other.  The model and the sampler are the  *)
(* deterministic ones of the two sessions above.  A forward call of the    *)
(* model may fail; it fails at the same call of a request on both sides.   *)
(***************************************************************************)
MaxRequests == 2    \* requests given to the pipeline and to the session

PairPrompts == {<<0>>, <<1, 0>>}
PairConfigs ==
    TwinConfigs \cup {Config(Some(Single(2)), None, None, None, None, None)}

\* Pipeline::new (pipeline.rs 31-55)
NewPipeline(c, seed, weights, last_n) ==
    [sampling |-> Sampling(c),
     seed |-> seed,
     draws |-> 0,
     weights |-> weights,
     fed |-> <<>>,
     repetition_penalty |-> GetRepetitionPenaltyOr(c, 1),
     repeat_last_n |-> last_n,
     eos_token_id |-> Unwrap(GetEosTokenId(c)),
     max_new_tokens |-> GetMaxNewTokensOr(c, 0),
     generated_tokens |-> 0,
     tokens |-> <<>>]

\* the locals tokens and generated_tokens of run (pipeline.rs 112-119) and how
\* run ended: "Err" (a `?` returned), "todo" (the loop was left, pipeline.rs
\* 165)
NoRun == [tokens |-> <<>>, generated_tokens |-> 0, ret |-> "none"]
Request(ids, max, fails_at) ==
    [ids |-> ids, max_new_tokens |-> max, fails_at |-> fails_at]

\* the loop of Pipeline::run (pipeline.rs 124-155) from iteration index on:
\* the module and the sampler of p, the locals toks and generated
RECURSIVE RunLoop(_, _, _, _, _)
RunLoop(p, toks, generated, index, req) ==
    IF index >= req.max_new_tokens
    THEN [pipeline |-> p, tokens |-> toks, generated_tokens |-> generated, ret |-> "todo"]
    ELSE LET context_size == IF index > 0 THEN 1 ELSE Len(toks)
             start_pos == SaturatingSub(Len(toks), context_size)
             ctxt == SubSeq(toks, start_pos + 1, Len(toks))
         IN  IF req.fails_at = index + 1
             THEN [pipeline |-> p, tokens |-> toks, generated_tokens |-> generated,
                   ret |-> "Err"]
             ELSE LET logits == ModelScores(p.weights, p.fed \o ctxt)
                      input == Penalised(logits, p.repetition_penalty,
                                         p.repeat_last_n, toks)
                      next_token == Draw(p.sampling, p.seed, p.draws, input)
                      q == [p EXCEPT !.fed = p.fed \o ctxt,
                                     !.draws = Drawn(p.sampling, p.draws)]
                      pushed == PushHistory(toks, next_token)
                  IN  IF IsEos(p.eos_token_id, next_token)
                      THEN [pipeline |-> q, tokens |-> pushed,
                            generated_tokens |-> generated + 1, ret |-> "todo"]
                      ELSE RunLoop(q, pushed, generated + 1, index + 1, req)

InitPair ==
    /\ config \in PairConfigs
    /\ SessionIdle
    /\ StreamIdle
    /\ IndexIdle
    /\ RunIdle
    /\ TwinIdle
    /\ \E seed \in Seeds, weights \in Weights :
         /\ pipeline = NewPipeline(config, seed, weights, 2)
         /\ session = NewSession(config, seed, weights, 2)
    /\ p_run = NoRun
    /\ request = Request(<<>>, 0, 0)
    /\ served = 0
    /\ pair_pc = "idle"

\* Pipeline::run (pipeline.rs 105-167) on the prompt tokens ids; a run that
\* leaves its loop ends in todo!(), a run whose forward failed returns the error
PipelineRun(ids, max, fails_at) ==
    /\ pair_pc = "idle"
    /\ served < MaxRequests
    /\ p_run.ret # "todo"
    /\ LET req == Request(ids, max, fails_at)
           r == RunLoop(pipeline, ids, 0, 0, req)
       IN  /\ request' = req
           /\ pipeline' = r.pipeline
           /\ p_run' = [tokens |-> r.tokens, generated_tokens |-> r.generated_tokens,
                        ret |-> r.ret]
    /\ pair_pc' = "ran"
    /\ UNCHANGED <<session, served, cfgVars, genVars, strVars, idxVars, runVars, twinVars>>

\* the caller of tests/qwen_25.rs 87-109 goes on while it is given a token
Stepped(s) ==
    IF s.outs[Len(s.outs)].kind = "Ok" THEN "stepping" ELSE "idle"

\* TextGeneration::apply (generation.rs 128-134) with the same request
SessionApply ==
    /\ pair_pc = "ran"
    /\ LET s == SessionStep(session,
                            Call("apply", request.ids, request.max_new_tokens,
                                 request.fails_at = 1),
                            session.draws, session.fed)
       IN  /\ session' = s
           /\ pair_pc' = Stepped(s)
           /\ served' = IF Stepped(s) = "idle" THEN served + 1 ELSE served
    /\ UNCHANGED <<pipeline, p_run, request, cfgVars, genVars, strVars, idxVars,
                   runVars, twinVars>>

\* TextGeneration::next (generation.rs 136-138)
SessionNext ==
    /\ pair_pc = "stepping"
    /\ LET s == SessionStep(session,
                            Call("next", <<>>, 0,
                                 request.fails_at = session.generated_tokens + 1),
                            session.draws, session.fed)
       IN  /\ session' = s
           /\ pair_pc' = Stepped(s)
           /\ served' = IF Stepped(s) = "idle" THEN served + 1 ELSE served
    /\ UNCHANGED <<pipeline, p_run, request, cfgVars, genVars, strVars, idxVars,
                   runVars, twinVars>>

NextPair ==
    \/ \E ids \in PairPrompts, max \in 0 .. MaxBudget, fails_at \in 0 .. MaxBudget :
         PipelineRun(ids, max, fails_at)
    \/ SessionApply
    \/ SessionNext

SpecPair == InitPair /\ [][NextPair]_vars

\* the request was served by both without a failure of the model
ServedBoth ==
    /\ pair_pc = "idle"
    /\ served > 0
    /\ p_run.ret = "todo"
    /\ session.outs[Len(session.outs)].kind \in {"Eos", "MaxNewTokenExceeded"}

\* C34: for the same model, configuration, seed, prompt tokens and
\* max_new_tokens, Pipeline::run appends the same token sequence as apply
\* followed by next() until Eos or MaxNewTokenExceeded; it stops at the first
\* EOS token and never generates more than max_new_tokens tokens.
C34_RunAgreesWithSteps ==
    ServedBoth =>
        LET n == Len(request.ids)
            appended == Drop(p_run.tokens, n)
        IN  /\ p_run.tokens = session.tokens
            /\ SubSeq(p_run.tokens, 1, n) = request.ids
            /\ Len(appended) <= request.max_new_tokens
            /\ \A k \in 1 .. Len(appended) - 1 :
                   ~IsEos(pipeline.eos_token_id, appended[k])

\* the run of a new pipeline, whose model has been fed nothing, appends what
\* the steps of a new session append
FirstRequestAgrees ==
    (ServedBoth /\ served = 1) => C34_RunAgreesWithSteps

====
